---- MODULE Spec2Model ----
(***************************************************************************)
(* AudioMNIST feature pipeline: the pure functions of DataProcessing       *)
(* (zero_pad, feature_creation, normalize_features), each modelled as an   *)
(* operator that computes what the Python code computes, and driven by one *)
(* action per method call; DataPreparation of main.py, one action per      *)
(* statement, over a small audio directory (SpecPreparation); and          *)
(* Modelling of main.py, one action per statement, over the rows of        *)
(* final_data.csv (SpecModelling).                                         *)
(*                                                                         *)
(* Numbers.  A float is modelled as a binary fixed-point number, a         *)
(* rational n/d in lowest terms with d a power of two up to 2^FracBits, or *)
(* one of the IEEE specials NaN, +inf, -inf:                               *)
(*     [k |-> "fin", n |-> n, d |-> d]                                     *)
(*     [k |-> "nan", n |-> 0, d |-> 1]                                     *)
(*     [k |-> "inf", n |-> +1 or -1, d |-> 1]                              *)
(* Sums and differences are exact; a product, a quotient and a square root *)
(* are rounded down to a multiple of 2^-FracBits, where IEEE 754 rounds to *)
(* the nearest of 2^53 significands.  Signed zero is not modelled.         *)
(***************************************************************************)
EXTENDS Integers, Sequences, FiniteSets, TLC

VARIABLES target_sr, called, data, offset, fft_data, scipy_zero, features,
          numeric, result

\* DataPreparation (main.py): the audio directory, the metadata, the flag,
\* the position in the function, its locals, the table and the CSV file
VARIABLES subdirs, wav, meta_data, write_mode, pc, num_folders, folder_i,
          filepath_filename, pos, file, dig, vp, rep, fs, audio_data,
          n_features, df, csv, log

prepVars == <<subdirs, wav, meta_data, write_mode, pc, num_folders, folder_i,
              filepath_filename, pos, file, dig, vp, rep, fs, audio_data,
              n_features, df, csv, log>>

callVars == <<target_sr, called, data, offset, fft_data, scipy_zero, features,
              numeric, result>>

\* Modelling (main.py): the flag, the position in the function, the rows of
\* final_data.csv, the table read from it, the three partitions, the
\* XGBoostModel's self.model, and the methods of XM called so far
VARIABLES tuning_mode, mpc, final_data, final_df, train_df, val_df, test_df,
          xm, calls

modelVars == <<tuning_mode, mpc, final_data, final_df, train_df, val_df,
               test_df, xm, calls>>

vars == <<callVars, prepVars, modelVars>>

(* ------------------------------ bounds -------------------------------- *)

\* largest target sample rate (= padding length) a DataProcessing is built with
MaxTargetSr == 4
\* longest signal handed to zero_pad
MaxLen == 5
\* samples of a signal are drawn from -1 .. MaxSample
MaxSample == 1
\* most keys of a feature dict handed to normalize_features directly
MaxKeys == 3
\* values of such a dict are drawn from -1 .. MaxVal
MaxVal == 3
\* longest spectrum handed to feature_creation
MaxSpec == 3
\* real parts of the spectrum's coefficients are drawn from -1 .. MaxRe
MaxRe == 3
\* fractional bits a float keeps
FracBits == 5

(* ------------------------------ numbers ------------------------------- *)

Abs(x) == IF x < 0 THEN -x ELSE x

Sign(x) == IF x < 0 THEN -1 ELSE IF x > 0 THEN 1 ELSE 0

RECURSIVE GCD(_, _)
GCD(a, b) == IF b = 0 THEN a ELSE GCD(b, a % b)

\* the rational n/d (d # 0) in lowest terms with a positive denominator
Fin(n, d) ==
    LET g == GCD(Abs(n), Abs(d))
        s == Sign(d)
    IN  [k |-> "fin", n |-> (s * n) \div g, d |-> Abs(d) \div g]

NaN == [k |-> "nan", n |-> 0, d |-> 1]

Inf(s) == [k |-> "inf", n |-> s, d |-> 1]

Zero == Fin(0, 1)

IsFinite(a) == a.k = "fin"

IsZero(a) == a.k = "fin" /\ a.n = 0

\* sign of a number that is not NaN
SignOf(a) == Sign(a.n)

\* a < b as IEEE 754 and Python compare floats: False whenever one is NaN
\* (finite operands are compared over their least common denominator)
Lt(a, b) ==
    /\ a.k # "nan"
    /\ b.k # "nan"
    /\ IF a.k = "fin" /\ b.k = "fin"
       THEN LET g == GCD(a.d, b.d)
            IN  a.n * (b.d \div g) < b.n * (a.d \div g)
       ELSE IF a.k = "inf" /\ b.k = "inf" THEN a.n < b.n
       ELSE IF a.k = "inf" THEN a.n < 0
       ELSE b.n > 0

Le(a, b) == Lt(a, b) \/ (a.k # "nan" /\ a = b)

Neg(a) == IF a.k = "nan" THEN NaN
          ELSE IF a.k = "inf" THEN Inf(-a.n)
          ELSE Fin(-a.n, a.d)

\* a + b
Add(a, b) ==
    IF a.k = "nan" \/ b.k = "nan" THEN NaN
    ELSE IF a.k = "inf" /\ b.k = "inf" THEN (IF a.n = b.n THEN a ELSE NaN)
    ELSE IF a.k = "inf" THEN a
    ELSE IF b.k = "inf" THEN b
    ELSE LET g == GCD(a.d, b.d)
         IN  Fin(a.n * (b.d \div g) + b.n * (a.d \div g), (a.d \div g) * b.d)

\* a - b
Sub(a, b) == Add(a, Neg(b))

\* the rational n/d (d # 0) rounded down to a multiple of 2^-FracBits
Round(n, d) ==
    LET scale == 2 ^ FracBits
    IN  Fin((Sign(d) * n * scale) \div Abs(d), scale)

\* the rounded product of the finite numbers a and b, common factors
\* cancelled before the multiplication
FinMul(a, b) ==
    LET g == GCD(Abs(a.n), b.d)
        h == GCD(Abs(b.n), a.d)
    IN  Round((a.n \div g) * (b.n \div h), (a.d \div h) * (b.d \div g))

\* the rounded quotient of the finite number a by the finite number b # 0
FinDiv(a, b) ==
    LET g == GCD(Abs(a.n), Abs(b.n))
        h == GCD(a.d, b.d)
    IN  Round((a.n \div g) * (b.d \div h), (a.d \div h) * (b.n \div g))

\* a * b
Mul(a, b) ==
    IF a.k = "nan" \/ b.k = "nan" THEN NaN
    ELSE IF a.k = "inf" \/ b.k = "inf"
         THEN (IF SignOf(a) * SignOf(b) = 0 THEN NaN ELSE Inf(SignOf(a) * SignOf(b)))
    ELSE FinMul(a, b)

\* a / b for numpy.float64 operands: a zero divisor gives NaN or an infinity
\* (with a RuntimeWarning), never an exception
NumpyDiv(a, b) ==
    IF a.k = "nan" \/ b.k = "nan" THEN NaN
    ELSE IF b.k = "inf" THEN (IF a.k = "inf" THEN NaN ELSE Zero)
    ELSE IF b.n = 0 THEN (IF SignOf(a) = 0 THEN NaN ELSE Inf(SignOf(a)))
    ELSE IF a.k = "inf" THEN Inf(SignOf(a) * SignOf(b))
    ELSE FinDiv(a, b)

RECURSIVE IsqrtFrom(_, _, _)
\* the largest r in lo .. hi with r * r <= x, by bisection (mid >= 1, and
\* mid <= x \div mid says mid * mid <= x without forming the product)
IsqrtFrom(x, lo, hi) ==
    IF lo >= hi THEN lo
    ELSE LET mid == (lo + hi + 1) \div 2
         IN  IF mid <= x \div mid THEN IsqrtFrom(x, mid, hi)
             ELSE IsqrtFrom(x, lo, mid - 1)

\* sqrt(a), rounded down to a multiple of 2^-FracBits
Sqrt(a) ==
    IF a.k = "nan" THEN NaN
    ELSE IF a.k = "inf" THEN (IF a.n > 0 THEN a ELSE NaN)
    ELSE IF a.n < 0 THEN NaN
    ELSE LET scale == 2 ^ FracBits
             x == (a.n * scale * scale) \div a.d
         IN  Fin(IsqrtFrom(x, 0, (x \div 2) + 1), scale)

\* the integer i as a float
Num(i) == Fin(i, 1)

(* ------------------- Python builtins over a sequence ------------------ *)

RECURSIVE PyMinFrom(_, _, _)
\* builtin min(): keeps the first item and replaces it by a later item only
\* when that item compares less (so a leading NaN is never replaced)
PyMinFrom(s, i, best) ==
    IF i > Len(s) THEN best
    ELSE PyMinFrom(s, i + 1, IF Lt(s[i], best) THEN s[i] ELSE best)

PyMin(s) == PyMinFrom(s, 2, s[1])

RECURSIVE PyMaxFrom(_, _, _)
\* builtin max(): replaces the kept item only when a later item compares greater
PyMaxFrom(s, i, best) ==
    IF i > Len(s) THEN best
    ELSE PyMaxFrom(s, i + 1, IF Lt(best, s[i]) THEN s[i] ELSE best)

PyMax(s) == PyMaxFrom(s, 2, s[1])

(* ------------------------------ results ------------------------------- *)

\* what a call left behind: a returned array, a returned dict, or an exception
NoResult == [status |-> "none", exc |-> "", array |-> <<>>, dict |-> <<>>]

ReturnArray(a) == [status |-> "returned", exc |-> "", array |-> a, dict |-> <<>>]

ReturnDict(d) == [status |-> "returned", exc |-> "", array |-> <<>>, dict |-> d]

Raise(e) == [status |-> "raised", exc |-> e, array |-> <<>>, dict |-> <<>>]

(* ------------------------------ zero_pad ------------------------------ *)

\* marks a call of zero_pad in which no offset is drawn
NoOffset == -1

\* a draw that may also return high, as random.randint does
randint_inclusive(low, high) == low .. high

\* numpy.random.randint(low, high): an integer of the half-open range [low, high)
randint(low, high) == low .. (high - 1)

\* numpy.zeros(n)
zeros(n) == [i \in 1 .. n |-> 0]

\* embedded_data[offset:offset+len(data)] = data  (offset counted from 0)
embed(buf, off, d) ==
    [i \in 1 .. Len(buf) |->
        IF off < i /\ i <= off + Len(d) THEN d[i - off] ELSE buf[i]]

\* zero_pad cutting a longer signal down to padding_length
zero_pad_truncating(d, padding_length, off) ==
    IF Len(d) < padding_length
    THEN ReturnArray(embed(zeros(padding_length), off, d))
    ELSE ReturnArray(SubSeq(d, 1, padding_length))

\* zero_pad raising for every signal that is not shorter than padding_length
zero_pad_rejecting_equal(d, padding_length, off) ==
    IF Len(d) < padding_length
    THEN ReturnArray(embed(zeros(padding_length), off, d))
    ELSE Raise("ValueError")

\* DataProcessing.zero_pad, the offset it draws made explicit as off
zero_pad(d, padding_length, off) ==
    IF Len(d) < padding_length
    THEN ReturnArray(embed(zeros(padding_length), off, d))
    ELSE IF Len(d) = padding_length
    THEN ReturnArray(d)
    ELSE Raise("ValueError")

\* the offsets zero_pad can draw for a signal of n samples
Offsets(n, padding_length) ==
    IF n < padding_length THEN randint(0, padding_length - n) ELSE {NoOffset}

(* -------------------------- feature_creation -------------------------- *)

\* a coefficient of the spectrum is a complex number [re, im]; numpy.abs of
\* it is sqrt(re^2 + im^2), exact for the coefficients the model draws
magnitude(z) ==
    Num(IsqrtFrom(z.re * z.re + z.im * z.im, 0, Abs(z.re) + Abs(z.im)))

\* numpy.abs(fft_data)
np_abs(s) == [i \in 1 .. Len(s) |-> magnitude(s[i])]

RECURSIVE SumFrom(_, _)
SumFrom(s, i) == IF i > Len(s) THEN Zero ELSE Add(s[i], SumFrom(s, i + 1))

\* numpy.mean: NaN for an empty array
np_mean(s) == NumpyDiv(SumFrom(s, 1), Num(Len(s)))

RECURSIVE Power(_, _)
Power(a, k) == IF k = 0 THEN Fin(1, 1) ELSE Mul(a, Power(a, k - 1))

\* the k-th central moment, mean((x - mean(x))^k)
moment(s, k) ==
    LET m == np_mean(s)
    IN  np_mean([i \in 1 .. Len(s) |-> Power(Sub(s[i], m), k)])

\* numpy.std: the population standard deviation
np_std(s) == Sqrt(moment(s, 2))

\* numpy.diff: the first differences
np_diff(s) == [i \in 1 .. Len(s) - 1 |-> Sub(s[i + 1], s[i])]

\* statistics.median of non-empty data: the middle of the sorted data, or
\* the mean of the two middle items
median(s) ==
    LET sorted == SortSeq(s, Lt)
        n == Len(s)
        i == n \div 2
    IN  IF n % 2 = 1 THEN sorted[i + 1]
        ELSE NumpyDiv(Add(sorted[i], sorted[i + 1]), Num(2))

\* scipy.stats.skew (biased): m3 / m2^1.5; for constant data (m2 = 0) scipy
\* returns 0 or NaN, depending on its version
skew(s, sz) ==
    LET m2 == moment(s, 2)
    IN  IF IsZero(m2) THEN (IF sz = "zero" THEN Zero ELSE NaN)
        ELSE NumpyDiv(moment(s, 3), Mul(m2, Sqrt(m2)))

\* scipy.stats.kurtosis (Fisher, biased): m4 / m2^2 - 3; for constant data
\* scipy returns 0 - 3 or NaN, depending on its version
kurtosis(s, sz) ==
    LET m2 == moment(s, 2)
    IN  IF IsZero(m2) THEN (IF sz = "zero" THEN Num(-3) ELSE NaN)
        ELSE Sub(NumpyDiv(moment(s, 4), Mul(m2, m2)), Num(3))

\* the modulation index with a guard that returns 0 for a zero mean
modindx_guarded(s) ==
    IF IsZero(np_mean(np_diff(s))) THEN Zero
    ELSE NumpyDiv(np_std(np_diff(s)), np_mean(np_diff(s)))

\* np.std(np.diff(fft_data)) / np.mean(np.diff(fft_data))
modindx(s) == NumpyDiv(np_std(np_diff(s)), np_mean(np_diff(s)))

Item(name, v) == [key |-> name, val |-> v]

\* the dict built with min written before max
features_of_min_first(s, sz) ==
    LET hi == PyMax(s)
        lo == PyMin(s)
    IN  << Item("mean", np_mean(s)),
           Item("std", np_std(s)),
           Item("median", median(s)),
           Item("min", lo),
           Item("max", hi),
           Item("skewness", skew(s, sz)),
           Item("kurtosis", kurtosis(s, sz)),
           Item("dfrange", Sub(hi, lo)),
           Item("modindx", modindx(s)) >>

\* the dict feature_creation builds from the magnitudes s, key by key
features_of(s, sz) ==
    LET hi == PyMax(s)
        lo == PyMin(s)
    IN  << Item("mean", np_mean(s)),
           Item("std", np_std(s)),
           Item("median", median(s)),
           Item("max", hi),
           Item("min", lo),
           Item("skewness", skew(s, sz)),
           Item("kurtosis", kurtosis(s, sz)),
           Item("dfrange", Sub(hi, lo)),
           Item("modindx", modindx(s)) >>

\* DataProcessing.feature_creation; statistics.median raises StatisticsError
\* on empty data
feature_creation(fft, sz) ==
    IF Len(fft) = 0 THEN Raise("StatisticsError")
    ELSE ReturnDict(features_of(np_abs(fft), sz))

(* ------------------------- normalize_features ------------------------ *)

\* a dict is the sequence of its items [key, val] in insertion order;
\* list(features.values())
values(dict) == [i \in 1 .. Len(dict) |-> dict[i].val]

\* list(features.keys())
keys(dict) == [i \in 1 .. Len(dict) |-> dict[i].key]

\* x / y as the operands' type computes it: Python's int and float raise
\* ZeroDivisionError on a zero divisor, numpy.float64 returns NaN or +-inf
DivRaises(num, den, kind) == kind = "python" /\ IsZero(den)

RECURSIVE normalize_loop(_, _, _)
\* the for loop over feature_keys from the i-th key on: min() and max() are
\* taken over the dict as it is when the key is visited, earlier keys already
\* overwritten by their normalized values
normalize_loop(dict, i, kind) ==
    IF i > Len(dict) THEN ReturnDict(dict)
    ELSE LET lo  == PyMin(values(dict))
             hi  == PyMax(values(dict))
             num == Sub(dict[i].val, lo)
             den == Sub(hi, lo)
         IN  IF DivRaises(num, den, kind) THEN Raise("ZeroDivisionError")
             ELSE normalize_loop([dict EXCEPT ![i].val = NumpyDiv(num, den)],
                                 i + 1, kind)

\* DataProcessing.normalize_features
normalize_features(dict, kind) == normalize_loop(dict, 1, kind)

(* ------------------------------ inputs -------------------------------- *)

SeqsUpTo(S, n) == UNION {[1 .. m -> S] : m \in 0 .. n}

Samples == -1 .. MaxSample

Signals == SeqsUpTo(Samples, MaxLen)

\* the imaginary parts the spectrum's coefficients are drawn from
ImParts == {0, 4}

\* the coefficients whose magnitude is an integer
FftVals ==
    {z \in [re : -1 .. MaxRe, im : ImParts] :
        \E r \in 0 .. (MaxRe + 4) : r * r = z.re * z.re + z.im * z.im}

Spectra == SeqsUpTo(FftVals, MaxSpec)

\* what scipy's skew and kurtosis can return for the spectrum: 0 or NaN
\* when its magnitudes are all equal, and nothing to choose otherwise
ScipyZero(fft) ==
    IF Len(fft) > 0 /\ IsZero(moment(np_abs(fft), 2)) THEN {"zero", "nan"}
    ELSE {"none"}

\* the keys feature_creation writes, in the order it writes them
feature_names ==
    <<"mean", "std", "median", "max", "min", "skewness", "kurtosis",
      "dfrange", "modindx">>

\* the dict whose i-th key is the i-th feature name and whose values are vs
DictOf(vs) == [i \in 1 .. Len(vs) |-> [key |-> feature_names[i], val |-> Num(vs[i])]]

FeatureDicts == {DictOf(vs) : vs \in SeqsUpTo(-1 .. MaxVal, MaxKeys)}

\* the number types a feature dict can hold: Python int/float, numpy.float64
NumericKinds == {"python", "numpy"}

(* ------------------------- strings and paths -------------------------- *)

\* a str is the sequence of its characters; the characters of the paths, in
\* the order of their code points
Alphabet ==
    <<".", "/", "0", "1", "2", "3", "4", "5", "6", "7", "8", "9", "_",
      "a", "d", "i", "o", "u", "v", "w">>

ord(c) == CHOOSE k \in 1 .. Len(Alphabet) : Alphabet[k] = c

\* a < b on str: by the first character that differs, else the shorter first
str_lt(a, b) ==
    LET n     == IF Len(a) < Len(b) THEN Len(a) ELSE Len(b)
        diffs == {k \in 1 .. n : a[k] # b[k]}
    IN  IF diffs = {} THEN Len(a) < Len(b)
        ELSE LET k == CHOOSE m \in diffs : \A l \in diffs : m <= l
             IN  ord(a[k]) < ord(b[k])

RECURSIVE sorted_descending(_)
\* a sort that puts the greatest first
sorted_descending(S) ==
    IF S = {} THEN <<>>
    ELSE LET most == CHOOSE a \in S : \A b \in S \ {a} : str_lt(b, a)
         IN  <<most>> \o sorted_descending(S \ {most})

RECURSIVE sorted(_)
\* sorted(list of str): the least first
sorted(S) ==
    IF S = {} THEN <<>>
    ELSE LET least == CHOOSE a \in S : \A b \in S \ {a} : str_lt(a, b)
         IN  <<least>> \o sorted(S \ {least})

RECURSIVE rstrip(_, _)
\* s.rstrip(chars): drops every trailing character that is one of chars
rstrip(s, chars) ==
    IF Len(s) > 0 /\ s[Len(s)] \in chars
    THEN rstrip(SubSeq(s, 1, Len(s) - 1), chars)
    ELSE s

RECURSIVE str_split(_, _)
\* s.split(sep) for a separator of one character
str_split(s, sep) ==
    LET at == {k \in 1 .. Len(s) : s[k] = sep}
    IN  IF at = {} THEN <<s>>
        ELSE LET k == CHOOSE m \in at : \A l \in at : m <= l
             IN  <<SubSeq(s, 1, k - 1)>> \o str_split(SubSeq(s, k + 1, Len(s)), sep)

\* os.path.join(a, b) on a POSIX system
join(a, b) == a \o <<"/">> \o b

str(n) == <<Alphabet[n + 3]>>

\* f"{n:02d}" for n < 100
two_digits(n) == str(n \div 10) \o str(n % 10)

\* SU.audio_path
audio_path == <<"a", "u", "d", "i", "o">>

\* glob.glob(os.path.join(src_temp, "*.wav")): the files of the directory
\* src_temp whose name ends in .wav
glob(src_temp, files) ==
    {p \in files :
        /\ Len(p) > Len(src_temp) + 5
        /\ SubSeq(p, 1, Len(src_temp) + 1) = src_temp \o <<"/">>
        /\ SubSeq(p, Len(p) - 3, Len(p)) = <<".", "w", "a", "v">>
        /\ \A k \in (Len(src_temp) + 2) .. Len(p) : p[k] # "/"}

(* --------------------- DataPreparation: functions --------------------- *)

\* the target rate of the DataProcessing that main.py builds, scaled down
\* from 8000 to the 2 of the unit tests; numpy's FFT of 2 samples is exact
PrepTargetSr == 2
\* most subdirectories of the audio directory
MaxFolders == 2
\* most .wav files under the audio directory
MaxRecordings == 3

\* the samples scipy.signal.resample can return
ResampledSamples == {0, 1}

\* DataProcessing.resample_data: librosa.resample returns y itself when the
\* two rates are equal, and ceil(len(y) * target_sr / orig_sr) samples
\* computed by scipy.signal.resample otherwise
resample_data(orig_sr, y, sr) ==
    IF orig_sr = sr THEN {y}
    ELSE [1 .. ((Len(y) * sr + orig_sr - 1) \div orig_sr) -> ResampledSamples]

\* z * (-i)^q
rotate(z, q) ==
    CASE q % 4 = 0 -> z
      [] q % 4 = 1 -> [re |-> z.im, im |-> 0 - z.re]
      [] q % 4 = 2 -> [re |-> 0 - z.re, im |-> 0 - z.im]
      [] OTHER     -> [re |-> 0 - z.im, im |-> z.re]

RECURSIVE dft_sum(_, _, _)
\* sum over n of x[n] * exp(-2 pi i k n / N), for N = 1, 2 or 4
dft_sum(x, k, n) ==
    IF n > Len(x) THEN [re |-> 0, im |-> 0]
    ELSE LET t == rotate([re |-> x[n], im |-> 0],
                         (k - 1) * (n - 1) * (4 \div Len(x)))
             r == dft_sum(x, k, n + 1)
         IN  [re |-> t.re + r.re, im |-> t.im + r.im]

\* DataProcessing.fft_data: numpy.fft.fft
np_fft(x) == [k \in 1 .. Len(x) |-> dft_sum(x, k, 1)]

\* a str value of a dict
Str(s) == [k |-> "str", s |-> s]

\* features[column] = value; return features
add_column(dict, column, value) ==
    IF \E k \in 1 .. Len(dict) : dict[k].key = column
    THEN [k \in 1 .. Len(dict) |->
            IF dict[k].key = column THEN [key |-> column, val |-> value]
            ELSE dict[k]]
    ELSE Append(dict, [key |-> column, val |-> value])

\* pandas.DataFrame(columns=column_names)
create_dataframe(column_names) == [columns |-> column_names, rows |-> <<>>]

\* df.append(row, ignore_index=True): the row goes last, its new keys
\* become the last columns
append(frame, row) ==
    LET IsNew(c) == \A k \in 1 .. Len(frame.columns) : frame.columns[k] # c
    IN  [columns |-> frame.columns \o SelectSeq(keys(row), IsNew),
         rows    |-> Append(frame.rows, row)]

\* file.rstrip(".wav").split("/")[-1].split("_")
name_parts(path) ==
    LET dirs == str_split(rstrip(path, {".", "w", "a", "v"}), "/")
    IN  str_split(dirs[Len(dirs)], "_")

\* meta_data[vp]["gender"] of the first speaker, whatever vp is
gender_of_first(meta, speaker) == meta[two_digits(1)].gender

\* meta_data[vp]["gender"]
gender_of(meta, speaker) == meta[speaker].gender

\* a break that is never taken
break_never(mode) == FALSE

\* if write_mode == False: break
break_taken(mode) == mode = FALSE

(* ----------------------- DataPreparation: inputs ---------------------- *)

RECURSIVE Total(_, _)
Total(sz, n) == IF n = 0 THEN 0 ELSE sz[n] + Total(sz, n - 1)

\* how many .wav files each of the subdirectories 01 .. n holds
FolderSizes ==
    UNION {{sz \in [1 .. n -> 0 .. MaxRecordings] : Total(sz, n) <= MaxRecordings} :
              n \in 0 .. MaxFolders}

\* a recording is <<speaker, digit>>; its file is <digit>_<speaker>_0.wav in
\* the directory of its speaker
Items(sz) == UNION {{<<v, d>> : d \in 0 .. (sz[v] - 1)} : v \in DOMAIN sz}

wav_name(d, v, r) ==
    str(d) \o <<"_">> \o two_digits(v) \o <<"_">> \o str(r) \o <<".", "w", "a", "v">>

PathOf(it) == join(join(audio_path, two_digits(it[1])), wav_name(it[2], it[1], 0))

\* what scipy.io.wavfile.read returns for most recordings: sampled at the
\* target rate, shorter than one second or exactly one second long
Regular(it) ==
    IF it[2] % 2 = 0
    THEN [fs |-> PrepTargetSr, data |-> <<it[2] + 1>>]
    ELSE [fs |-> PrepTargetSr, data |-> <<it[2] + 1, 1>>]

\* and for one recording, if any: longer than one second at the target rate,
\* longer than one second at half the target rate, or one second at twice
\* the target rate
OddClips ==
    { [fs |-> PrepTargetSr, data |-> <<1, 1, 1>>],
      [fs |-> 1, data |-> <<1, 1>>],
      [fs |-> 2 * PrepTargetSr, data |-> <<1, 0, 1, 0>>] }

NoOdd == [item |-> <<0, 0>>, clip |-> [fs |-> 0, data |-> <<>>]]

WavOf(its, odd) ==
    [p \in {PathOf(it) : it \in its} |->
        LET it == CHOOSE x \in its : PathOf(x) = p
        IN  IF odd.item = it THEN odd.clip ELSE Regular(it)]

\* the .wav files under the audio directory
Wavs(sz) ==
    {WavOf(Items(sz), odd) : odd \in {NoOdd} \cup [item : Items(sz), clip : OddClips]}

\* the metadata file: a gender for every speaker
MetaData ==
    [v \in {two_digits(k) : k \in 1 .. (MaxFolders + 1)} |->
        LET k == CHOOSE n \in 1 .. (MaxFolders + 1) : two_digits(n) = v
        IN  [gender |-> IF k % 2 = 1 THEN "male" ELSE "female"]]

(* ------------------------ Modelling: functions ------------------------ *)

\* DataSplit(test_size=0.1, val_size=0.1): the two shares, in percent
val_size == 10

\* a test share twice the validation share
test_size_double == 2 * val_size

test_size == 10

\* most rows of final_data.csv
MaxRows == 10

\* Python's round(num / den) for num >= 0: to the nearest integer, a tie to
\* the even one
py_round(num, den) ==
    LET q == num \div den
        r == 2 * (num % den)
    IN  IF r < den THEN q
        ELSE IF r > den THEN q + 1
        ELSE IF q % 2 = 0 THEN q ELSE q + 1

\* the ways to take n of the rows S
Taken(S, n) == {T \in SUBSET S : Cardinality(T) = n}

\* a split whose validation rows are drawn from all the rows, test rows too
split_overlapping(rows, test_pct, val_pct) ==
    LET n_test == py_round(test_pct * Cardinality(rows), 100)
        n_val  == py_round(val_pct * Cardinality(rows), 100)
    IN  UNION {{[train |-> rows \ T, val |-> V, test |-> T] :
                    V \in Taken(rows, n_val)} : T \in Taken(rows, n_test)}

\* DataSplit.split: the rows are shuffled and sliced; round(test share * N)
\* rows are the test set, round(validation share * N) of the others the
\* validation set, the rest the training set.  The shuffle is the choice of
\* T and V.
split(rows, test_pct, val_pct) ==
    LET n_test == py_round(test_pct * Cardinality(rows), 100)
        n_val  == py_round(val_pct * Cardinality(rows), 100)
    IN  UNION {{[train |-> (rows \ T) \ V, val |-> V, test |-> T] :
                    V \in Taken(rows \ T, n_val)} : T \in Taken(rows, n_test)}

\* XGBoostModel.__init__ sets no self.model
NoModel == [estimator |-> "none", fitted |-> FALSE]

\* a set_params that leaves self.model as it is
xm_keep(m) == m

\* XGBoostModel.set_params: self.model = XGBClassifier(); self.model.set_params(...)
xm_set_params(m) == [estimator |-> "configured", fitted |-> FALSE]

\* XGBoostModel.grid_search: self.model = XGBClassifier(); GridSearchCV fits
\* clones of it
xm_grid_search(m) == [estimator |-> "default", fitted |-> FALSE]

\* XGBoostModel.fit: self.model.fit(...); AttributeError without a self.model
xm_fit(m) ==
    IF m.estimator = "none" THEN Raise("AttributeError")
    ELSE [status |-> "returned", exc |-> "", array |-> <<>>, dict |-> <<>>]

\* XGBoostModel.feature_importance and predict read the fitted self.model
xm_read(m) ==
    IF m.estimator = "none" THEN Raise("AttributeError")
    ELSE IF ~m.fitted THEN Raise("NotFittedError")
    ELSE [status |-> "returned", exc |-> "", array |-> <<>>, dict |-> <<>>]

\* one call of a method of XM, with self.model as the call found it
Invoke(method) == [method |-> method, model |-> xm]

(* ------------------------------ actions ------------------------------- *)

\* Modelling is not running
ModelIdle ==
    /\ tuning_mode = FALSE
    /\ mpc = "idle"
    /\ final_data = {}
    /\ final_df = {}
    /\ train_df = {}
    /\ val_df = {}
    /\ test_df = {}
    /\ xm = NoModel
    /\ calls = <<>>

\* DataPreparation is not running
PrepIdle ==
    /\ subdirs = 0
    /\ wav = <<>>
    /\ meta_data = <<>>
    /\ write_mode = FALSE
    /\ pc = "idle"
    /\ num_folders = 0
    /\ folder_i = 0
    /\ filepath_filename = <<>>
    /\ pos = 0
    /\ file = <<>>
    /\ dig = <<>>
    /\ vp = <<>>
    /\ rep = <<>>
    /\ fs = 0
    /\ audio_data = <<>>
    /\ n_features = <<>>
    /\ df = create_dataframe(<<>>)
    /\ csv = <<>>
    /\ log = <<>>

\* a DataProcessing built with some target sample rate, nothing called yet
Init ==
    /\ target_sr \in 1 .. MaxTargetSr
    /\ called = "none"
    /\ data = <<>>
    /\ offset = NoOffset
    /\ fft_data = <<>>
    /\ scipy_zero = "none"
    /\ features = <<>>
    /\ numeric = "none"
    /\ result = NoResult
    /\ PrepIdle
    /\ ModelIdle

\* DP.zero_pad(d)
ZeroPad ==
    \E d \in Signals :
        \E off \in Offsets(Len(d), target_sr) :
            /\ called = "none"
            /\ called' = "zero_pad"
            /\ data' = d
            /\ offset' = off
            /\ result' = zero_pad(d, target_sr, off)
            /\ fft_data' = <<>>
            /\ scipy_zero' = "none"
            /\ features' = <<>>
            /\ numeric' = "none"
            /\ UNCHANGED target_sr
            /\ UNCHANGED <<prepVars, modelVars>>

\* DP.normalize_features(features) on the dict feature_creation has just
\* returned, whose values are numpy.float64 (main.py: features =
\* DP.feature_creation(fft_data); n_features = DP.normalize_features(features))
NormalizeCreated ==
    /\ called = "feature_creation"
    /\ result.status = "returned"
    /\ called' = "normalize_features"
    /\ features' = result.dict
    /\ numeric' = "numpy"
    /\ result' = normalize_features(result.dict, "numpy")
    /\ UNCHANGED <<target_sr, data, offset, fft_data, scipy_zero>>
    /\ UNCHANGED <<prepVars, modelVars>>

\* DataProcessing.normalize_features(dict) on a dict built by the caller
NormalizeFeatures ==
    \E dict \in FeatureDicts :
        \E kind \in NumericKinds :
            /\ called = "none"
            /\ called' = "normalize_features"
            /\ features' = dict
            /\ numeric' = kind
            /\ result' = normalize_features(dict, kind)
            /\ data' = <<>>
            /\ offset' = NoOffset
            /\ fft_data' = <<>>
            /\ scipy_zero' = "none"
            /\ UNCHANGED target_sr
            /\ UNCHANGED <<prepVars, modelVars>>

\* DataProcessing.feature_creation(fft)
FeatureCreation ==
    \E fft \in Spectra :
        \E sz \in ScipyZero(fft) :
            /\ called = "none"
            /\ called' = "feature_creation"
            /\ fft_data' = fft
            /\ scipy_zero' = sz
            /\ result' = feature_creation(fft, sz)
            /\ data' = <<>>
            /\ offset' = NoOffset
            /\ features' = <<>>
            /\ numeric' = "none"
            /\ UNCHANGED target_sr
            /\ UNCHANGED <<prepVars, modelVars>>

\* the instance method zero_pad, on a DataProcessing of any target rate
SpecZeroPad == Init /\ [][ZeroPad]_vars

\* the static methods feature_creation and normalize_features read nothing
\* of the instance: they are run on one DataProcessing
InitFeatures == Init /\ target_sr = MaxTargetSr

NextFeatures == FeatureCreation \/ NormalizeCreated \/ NormalizeFeatures

SpecFeatures == InitFeatures /\ [][NextFeatures]_vars

(* ---------------------- DataPreparation: actions ---------------------- *)

\* what is given to a run and never written by it
givenVars ==
    <<target_sr, data, scipy_zero, subdirs, wav, meta_data, write_mode, modelVars>>

\* the locals of the outer loops
loopVars == <<num_folders, folder_i, filepath_filename, pos>>

\* the locals a file name is split into
nameVars == <<file, dig, vp, rep>>

\* one call of the log: the recording, the stage, what it read and returned
Call(stage, input, output) ==
    [file |-> file, stage |-> stage, input |-> input, output |-> output]

\* main.py builds DP once; DataPreparation is called with the four flags, of
\* which only write_mode changes what is computed.  scipy is one installed
\* version for the whole run.
InitPreparation ==
    /\ target_sr = PrepTargetSr
    /\ called = "none"
    /\ data = <<>>
    /\ offset = NoOffset
    /\ fft_data = <<>>
    /\ scipy_zero \in {"zero", "nan"}
    /\ features = <<>>
    /\ numeric = "none"
    /\ result = NoResult
    /\ \E sz \in FolderSizes :
          /\ subdirs = Len(sz)
          /\ wav \in Wavs(sz)
    /\ meta_data = MetaData
    /\ write_mode \in BOOLEAN
    /\ pc = "start"
    /\ num_folders = 0
    /\ folder_i = 0
    /\ filepath_filename = <<>>
    /\ pos = 0
    /\ file = <<>>
    /\ dig = <<>>
    /\ vp = <<>>
    /\ rep = <<>>
    /\ fs = 0
    /\ audio_data = <<>>
    /\ n_features = <<>>
    /\ df = create_dataframe(<<>>)
    /\ csv = <<>>
    /\ log = <<>>
    /\ ModelIdle

\* an exception leaves DataPreparation: nothing in main.py catches it
Raised(e) ==
    /\ pc' = "raised"
    /\ result' = Raise(e)

\* lines 38-52: read the metadata, create the table, count the folders
PrepSetup ==
    /\ pc = "start"
    /\ df' = create_dataframe(<<"gender", "digit">>)
    /\ num_folders' = subdirs + 1
    /\ pc' = "for_i"
    /\ UNCHANGED <<givenVars, nameVars, folder_i, filepath_filename, pos>>
    /\ UNCHANGED <<called, offset, fft_data, features, numeric, result>>
    /\ UNCHANGED <<fs, audio_data, n_features, csv, log>>

\* lines 55-60: for i in range(1, num_folders), the sorted files of folder i
PrepForFolder ==
    /\ pc = "for_i"
    /\ IF folder_i + 1 < num_folders
       THEN /\ folder_i' = folder_i + 1
            /\ filepath_filename' =
                 sorted(glob(join(audio_path, two_digits(folder_i + 1)), DOMAIN wav))
            /\ pos' = 0
            /\ pc' = "for_file"
       ELSE /\ pc' = "end"
            /\ UNCHANGED <<folder_i, filepath_filename, pos>>
    /\ UNCHANGED <<givenVars, nameVars, num_folders>>
    /\ UNCHANGED <<called, offset, fft_data, features, numeric, result>>
    /\ UNCHANGED <<fs, audio_data, n_features, df, csv, log>>

\* lines 61-65: for file in filepath_filename, split its name, read it
PrepForFile ==
    /\ pc = "for_file"
    /\ IF pos < Len(filepath_filename)
       THEN LET next  == filepath_filename[pos + 1]
                parts == name_parts(next)
            IN  /\ pos' = pos + 1
                /\ file' = next
                /\ IF Len(parts) = 3
                   THEN /\ dig' = parts[1]
                        /\ vp' = parts[2]
                        /\ rep' = parts[3]
                        /\ fs' = wav[next].fs
                        /\ audio_data' = wav[next].data
                        /\ pc' = "resample_data"
                        /\ UNCHANGED result
                   ELSE /\ Raised("ValueError")
                        /\ UNCHANGED <<dig, vp, rep, fs, audio_data>>
       ELSE /\ pc' = "for_i"
            /\ UNCHANGED <<pos, nameVars, fs, audio_data, result>>
    /\ UNCHANGED <<givenVars, num_folders, folder_i, filepath_filename>>
    /\ UNCHANGED <<called, offset, fft_data, features, numeric>>
    /\ UNCHANGED <<n_features, df, csv, log>>

\* line 82: audio_data = DP.resample_data(fs, audio_data)
PrepResample ==
    /\ pc = "resample_data"
    /\ \E y \in resample_data(fs, audio_data, target_sr) :
          /\ audio_data' = y
          /\ log' = Append(log, Call("resample_data", audio_data, y))
    /\ called' = "resample_data"
    /\ pc' = "zero_pad"
    /\ UNCHANGED <<givenVars, loopVars, nameVars>>
    /\ UNCHANGED <<offset, fft_data, features, numeric, result>>
    /\ UNCHANGED <<fs, n_features, df, csv>>

\* line 85: audio_data = DP.zero_pad(audio_data)
PrepZeroPad ==
    /\ pc = "zero_pad"
    /\ \E off \in Offsets(Len(audio_data), target_sr) :
          LET r == zero_pad(audio_data, target_sr, off)
          IN  /\ offset' = off
              /\ IF r.status = "returned"
                 THEN /\ audio_data' = r.array
                      /\ log' = Append(log, Call("zero_pad", audio_data, r.array))
                      /\ pc' = "fft_data"
                      /\ UNCHANGED result
                 ELSE /\ Raised(r.exc)
                      /\ UNCHANGED <<audio_data, log>>
    /\ called' = "zero_pad"
    /\ UNCHANGED <<givenVars, loopVars, nameVars>>
    /\ UNCHANGED <<fft_data, features, numeric>>
    /\ UNCHANGED <<fs, n_features, df, csv>>

\* the FFT taken of the recording as it was read, neither resampled nor padded
PrepFftOfRead ==
    /\ pc = "fft_data"
    /\ fft_data' = np_fft(wav[file].data)
    /\ log' = Append(log, Call("fft_data", wav[file].data, np_fft(wav[file].data)))
    /\ called' = "fft_data"
    /\ pc' = "feature_creation"
    /\ UNCHANGED <<givenVars, loopVars, nameVars>>
    /\ UNCHANGED <<offset, features, numeric, result>>
    /\ UNCHANGED <<fs, audio_data, n_features, df, csv>>

\* line 88: fft_data = DP.fft_data(audio_data)
PrepFft ==
    /\ pc = "fft_data"
    /\ fft_data' = np_fft(audio_data)
    /\ log' = Append(log, Call("fft_data", audio_data, np_fft(audio_data)))
    /\ called' = "fft_data"
    /\ pc' = "feature_creation"
    /\ UNCHANGED <<givenVars, loopVars, nameVars>>
    /\ UNCHANGED <<offset, features, numeric, result>>
    /\ UNCHANGED <<fs, audio_data, n_features, df, csv>>

\* line 91: features = DP.feature_creation(fft_data)
PrepFeatureCreation ==
    /\ pc = "feature_creation"
    /\ LET r == feature_creation(fft_data, scipy_zero)
       IN  IF r.status = "returned"
           THEN /\ features' = r.dict
                /\ log' = Append(log, Call("feature_creation", fft_data, r.dict))
                /\ pc' = "normalize_features"
                /\ UNCHANGED result
           ELSE /\ Raised(r.exc)
                /\ UNCHANGED <<features, log>>
    /\ called' = "feature_creation"
    /\ UNCHANGED <<givenVars, loopVars, nameVars>>
    /\ UNCHANGED <<offset, fft_data, numeric>>
    /\ UNCHANGED <<fs, audio_data, n_features, df, csv>>

\* line 94: n_features = DP.normalize_features(features); the dict is changed
\* in place and returned, so features and n_features name one dict from here
PrepNormalize ==
    /\ pc = "normalize_features"
    /\ LET r == normalize_features(features, "numpy")
       IN  IF r.status = "returned"
           THEN /\ features' = r.dict
                /\ n_features' = r.dict
                /\ log' = Append(log, Call("normalize_features", features, r.dict))
                /\ pc' = "gender"
                /\ UNCHANGED result
           ELSE /\ Raised(r.exc)
                /\ UNCHANGED <<features, n_features, log>>
    /\ called' = "normalize_features"
    /\ numeric' = "numpy"
    /\ UNCHANGED <<givenVars, loopVars, nameVars>>
    /\ UNCHANGED <<offset, fft_data>>
    /\ UNCHANGED <<fs, audio_data, df, csv>>

\* line 97: features = UT.add_column(n_features, "gender", meta_data[vp]["gender"])
PrepGender ==
    /\ pc = "gender"
    /\ IF vp \in DOMAIN meta_data
       THEN LET d == add_column(n_features, "gender", Str(gender_of(meta_data, vp)))
            IN  /\ features' = d
                /\ n_features' = d
                /\ log' = Append(log, Call("add_column", n_features, d))
                /\ pc' = "digit"
                /\ UNCHANGED result
       ELSE /\ Raised("KeyError")
            /\ UNCHANGED <<features, n_features, log>>
    /\ UNCHANGED <<givenVars, loopVars, nameVars>>
    /\ UNCHANGED <<called, offset, fft_data, numeric>>
    /\ UNCHANGED <<fs, audio_data, df, csv>>

\* line 98: features = UT.add_column(n_features, "digit", dig[-1])
PrepDigit ==
    /\ pc = "digit"
    /\ IF Len(dig) > 0
       THEN LET d == add_column(n_features, "digit", Str(dig[Len(dig)]))
            IN  /\ features' = d
                /\ n_features' = d
                /\ log' = Append(log, Call("add_column", n_features, d))
                /\ pc' = "append"
                /\ UNCHANGED result
       ELSE /\ Raised("IndexError")
            /\ UNCHANGED <<features, n_features, log>>
    /\ UNCHANGED <<givenVars, loopVars, nameVars>>
    /\ UNCHANGED <<called, offset, fft_data, numeric>>
    /\ UNCHANGED <<fs, audio_data, df, csv>>

\* line 101: df = df.append(features, ignore_index=True)
PrepAppend ==
    /\ pc = "append"
    /\ df' = append(df, features)
    /\ log' = Append(log, Call("append", features, features))
    /\ pc' = "break"
    /\ UNCHANGED <<givenVars, loopVars, nameVars>>
    /\ UNCHANGED <<called, offset, fft_data, features, numeric, result>>
    /\ UNCHANGED <<fs, audio_data, n_features, csv>>

\* lines 104-105: if write_mode == False: break, out of the loop over the files
PrepBreak ==
    /\ pc = "break"
    /\ pc' = IF break_taken(write_mode) THEN "for_i" ELSE "for_file"
    /\ UNCHANGED <<givenVars, loopVars, nameVars>>
    /\ UNCHANGED <<called, offset, fft_data, features, numeric, result>>
    /\ UNCHANGED <<fs, audio_data, n_features, df, csv, log>>

\* lines 108-109: if write_mode == True: UT.save_df_to_csv(df, ...); the file
\* is written once per call, csv lists what each call wrote
PrepSave ==
    /\ pc = "end"
    /\ csv' = IF write_mode = TRUE THEN Append(csv, df) ELSE csv
    /\ pc' = "done"
    /\ UNCHANGED <<givenVars, loopVars, nameVars>>
    /\ UNCHANGED <<called, offset, fft_data, features, numeric, result>>
    /\ UNCHANGED <<fs, audio_data, n_features, df, log>>

NextPreparation ==
    \/ PrepSetup
    \/ PrepForFolder
    \/ PrepForFile
    \/ PrepResample
    \/ PrepZeroPad
    \/ PrepFft
    \/ PrepFeatureCreation
    \/ PrepNormalize
    \/ PrepGender
    \/ PrepDigit
    \/ PrepAppend
    \/ PrepBreak
    \/ PrepSave

SpecPreparation == InitPreparation /\ [][NextPreparation]_vars

(* ------------------------- Modelling: actions ------------------------- *)

\* final_data.csv has up to MaxRows rows, numbered from 1; Modelling is
\* called with the four flags, of which only tuning_mode changes the calls
InitModelling ==
    /\ target_sr = PrepTargetSr
    /\ called = "none"
    /\ data = <<>>
    /\ offset = NoOffset
    /\ fft_data = <<>>
    /\ scipy_zero = "none"
    /\ features = <<>>
    /\ numeric = "none"
    /\ result = NoResult
    /\ PrepIdle
    /\ tuning_mode \in BOOLEAN
    /\ mpc = "csv_to_df"
    /\ \E n \in 0 .. MaxRows : final_data = 1 .. n
    /\ final_df = {}
    /\ train_df = {}
    /\ val_df = {}
    /\ test_df = {}
    /\ xm = NoModel
    /\ calls = <<>>

\* what no step of Modelling writes
fixedVars ==
    <<target_sr, called, data, offset, fft_data, scipy_zero, features, numeric,
      prepVars, tuning_mode, final_data>>

\* line 174: df = UT.csv_to_df(file_name="final_data.csv")
ModLoad ==
    /\ mpc = "csv_to_df"
    /\ final_df' = final_data
    /\ mpc' = "split"
    /\ UNCHANGED <<fixedVars, result, train_df, val_df, test_df, xm, calls>>

\* line 177: train_df, val_df, test_df = DS.split(df, "label")
ModSplit ==
    /\ mpc = "split"
    /\ \E s \in split(final_df, test_size, val_size) :
          /\ train_df' = s.train
          /\ val_df' = s.val
          /\ test_df' = s.test
    /\ mpc' = "prepare_data"
    /\ UNCHANGED <<fixedVars, result, final_df, xm, calls>>

\* lines 198-202: XM = XGBoostModel(...); XM.prepare_data(); if tuning_mode
ModPrepare ==
    /\ mpc = "prepare_data"
    /\ xm' = NoModel
    /\ calls' = Append(calls, Invoke("prepare_data"))
    /\ mpc' = IF tuning_mode = TRUE THEN "grid_search" ELSE "set_params"
    /\ UNCHANGED <<fixedVars, result, final_df, train_df, val_df, test_df>>

\* lines 203-213: XM.grid_search(...); the search or the writing of the best
\* parameters may raise
ModGridSearch ==
    /\ mpc = "grid_search"
    /\ calls' = Append(calls, Invoke("grid_search"))
    /\ xm' = xm_grid_search(xm)
    /\ \/ mpc' = "set_params" /\ UNCHANGED result
       \/ mpc' = "raised" /\ result' = Raise("Exception")
    /\ UNCHANGED <<fixedVars, final_df, train_df, val_df, test_df>>

\* lines 216-218: XM.set_params(model_param)
ModSetParams ==
    /\ mpc = "set_params"
    /\ calls' = Append(calls, Invoke("set_params"))
    /\ xm' = xm_set_params(xm)
    /\ mpc' = "fit"
    /\ UNCHANGED <<fixedVars, result, final_df, train_df, val_df, test_df>>

\* line 221: XM.fit(...); the training or the writing of the metrics may raise
ModFit ==
    /\ mpc = "fit"
    /\ calls' = Append(calls, Invoke("fit"))
    /\ IF xm_fit(xm).status = "raised"
       THEN /\ mpc' = "raised"
            /\ result' = xm_fit(xm)
            /\ UNCHANGED xm
       ELSE \/ /\ xm' = [xm EXCEPT !.fitted = TRUE]
               /\ mpc' = "feature_importance"
               /\ UNCHANGED result
            \/ /\ mpc' = "raised"
               /\ result' = Raise("Exception")
               /\ UNCHANGED xm
    /\ UNCHANGED <<fixedVars, final_df, train_df, val_df, test_df>>

\* line 224: feature_importance = XM.feature_importance()
ModFeatureImportance ==
    /\ mpc = "feature_importance"
    /\ calls' = Append(calls, Invoke("feature_importance"))
    /\ IF xm_read(xm).status = "raised"
       THEN mpc' = "raised" /\ result' = xm_read(xm)
       ELSE mpc' = "predict" /\ UNCHANGED result
    /\ UNCHANGED <<fixedVars, final_df, train_df, val_df, test_df, xm>>

\* line 235: y_pred = XM.predict(X_test)
ModPredict ==
    /\ mpc = "predict"
    /\ calls' = Append(calls, Invoke("predict"))
    /\ IF xm_read(xm).status = "raised"
       THEN mpc' = "raised" /\ result' = xm_read(xm)
       ELSE mpc' = "evaluate_predictions" /\ UNCHANGED result
    /\ UNCHANGED <<fixedVars, final_df, train_df, val_df, test_df, xm>>

\* line 238: accuracy = XM.evaluate_predictions(y_test, y_pred)
ModEvaluate ==
    /\ mpc = "evaluate_predictions"
    /\ calls' = Append(calls, Invoke("evaluate_predictions"))
    /\ mpc' = "done"
    /\ UNCHANGED <<fixedVars, result, final_df, train_df, val_df, test_df, xm>>

NextModelling ==
    \/ ModLoad
    \/ ModSplit
    \/ ModPrepare
    \/ ModGridSearch
    \/ ModSetParams
    \/ ModFit
    \/ ModFeatureImportance
    \/ ModPredict
    \/ ModEvaluate

SpecModelling == InitModelling /\ [][NextModelling]_vars

(* ------------------- vocabulary of the properties --------------------- *)

One == Fin(1, 1)

\* the dict has at least two distinct values
NonConstant(dict) ==
    \E i, j \in 1 .. Len(dict) : dict[i].val # dict[j].val

\* the dict is not empty and all its values are equal
Constant(dict) == Len(dict) > 0 /\ ~NonConstant(dict)

\* x is the least (greatest) of the values vs
IsMinimum(x, vs) ==
    (\E i \in 1 .. Len(vs) : vs[i] = x) /\ (\A i \in 1 .. Len(vs) : Le(x, vs[i]))

IsMaximum(x, vs) ==
    (\E i \in 1 .. Len(vs) : vs[i] = x) /\ (\A i \in 1 .. Len(vs) : Le(vs[i], x))

\* the least and the greatest of finite values vs
MinOf(vs) == CHOOSE x \in {vs[i] : i \in 1 .. Len(vs)} : IsMinimum(x, vs)

MaxOf(vs) == CHOOSE x \in {vs[i] : i \in 1 .. Len(vs)} : IsMaximum(x, vs)

\* (v - m) / (M - m) over the values vs, for M # m
MinMaxScaled(v, vs) == NumpyDiv(Sub(v, MinOf(vs)), Sub(MaxOf(vs), MinOf(vs)))

\* every value of the dict is a finite number
AllFinite(dict) == \A i \in 1 .. Len(dict) : IsFinite(dict[i].val)

\* normalize_features was called on a dict of finite numbers with at least
\* two distinct values
NormalizedNonConstant ==
    called = "normalize_features" /\ AllFinite(features) /\ NonConstant(features)

(* ------------------------------- C1 ----------------------------------- *)

\* C1: for every feature vector with at least two distinct values,
\* normalize_features returns a vector whose minimum is exactly 0 and whose
\* maximum is exactly 1.
C1_MinZeroMaxOne ==
    NormalizedNonConstant =>
        /\ result.status = "returned"
        /\ IsMinimum(Zero, values(result.dict))
        /\ IsMaximum(One, values(result.dict))

(* ------------------------------- C2 ----------------------------------- *)

\* C2: for every feature vector with at least two distinct values, each
\* returned value equals (v - m) / (M - m) with m and M the minimum and the
\* maximum of the original values of the row.
C2_RowWiseMinMax ==
    NormalizedNonConstant =>
        /\ result.status = "returned"
        /\ \A i \in 1 .. Len(features) :
               result.dict[i].val = MinMaxScaled(features[i].val, values(features))

(* ------------------------------- C3 ----------------------------------- *)

\* C3: for every feature vector with at least two distinct values,
\* normalize_features preserves the relative order of the values: a smaller
\* original value gets a smaller normalized value, equal values stay equal.
C3_OrderPreserved ==
    NormalizedNonConstant =>
        /\ result.status = "returned"
        /\ \A a, b \in 1 .. Len(features) :
               /\ Lt(features[a].val, features[b].val)
                      => Lt(result.dict[a].val, result.dict[b].val)
               /\ features[a].val = features[b].val
                      => result.dict[a].val = result.dict[b].val

(* ------------------------------- C4 ----------------------------------- *)

PaddedShorter == called = "zero_pad" /\ Len(data) < target_sr

\* C4: for every signal shorter than the target length, zero_pad returns a
\* buffer of length exactly target_length that holds the input unchanged as
\* one contiguous block at an offset drawn from [0, target_length - len),
\* zero everywhere else, the block lying inside the buffer.
C4_PaddedAtOffset ==
    PaddedShorter =>
        /\ result.status = "returned"
        /\ Len(result.array) = target_sr
        /\ 0 <= offset
        /\ offset < target_sr - Len(data)
        /\ offset + Len(data) <= target_sr
        /\ \A i \in 1 .. Len(data) : result.array[offset + i] = data[i]
        /\ \A i \in 1 .. target_sr :
               (i <= offset \/ i > offset + Len(data)) => result.array[i] = 0

\* a signal of two samples was embedded at a non-zero offset
C4_Witness ==
    /\ PaddedShorter
    /\ Len(data) >= 2
    /\ data[1] # 0
    /\ offset > 0
    /\ result.status = "returned"

(* ------------------------------- C5 ----------------------------------- *)

\* C5: for every signal longer than the target length, zero_pad fails with
\* an error and returns no buffer; it never returns a truncated signal.
C5_LongerRaises ==
    called = "zero_pad" /\ Len(data) > target_sr =>
        /\ result.status = "raised"
        /\ result.exc = "ValueError"
        /\ result.array = <<>>

\* zero_pad was called on a signal longer than the target and raised
C5_Witness ==
    /\ called = "zero_pad"
    /\ Len(data) > target_sr
    /\ result.status = "raised"

(* ------------------------------- C6 ----------------------------------- *)

\* C6: for every signal whose length equals the target length, zero_pad
\* returns the input samples unchanged, in the same order and length.
C6_EqualLengthIdentity ==
    called = "zero_pad" /\ Len(data) = target_sr =>
        /\ result.status = "returned"
        /\ result.array = data

\* zero_pad returned a signal of exactly the target length, with two
\* different samples in it
C6_Witness ==
    /\ called = "zero_pad"
    /\ Len(data) = target_sr
    /\ Len(data) >= 2
    /\ data[1] # data[2]
    /\ result.status = "returned"

(* ------------------------------- C7 ----------------------------------- *)

\* C7: for every feature vector whose values are all equal,
\* normalize_features fails with an error instead of returning a vector.
C7_ConstantVectorRaises ==
    called = "normalize_features" /\ AllFinite(features) /\ Constant(features) =>
        result.status = "raised"

(* ------------------------------- C8 ----------------------------------- *)

\* C8: whenever normalize_features returns for a vector of finite numbers,
\* every value of the returned vector lies in the closed interval [0, 1].
C8_ValuesInUnitInterval ==
    called = "normalize_features" /\ AllFinite(features)
        /\ result.status = "returned" =>
        \A i \in 1 .. Len(result.dict) :
            Le(Zero, result.dict[i].val) /\ Le(result.dict[i].val, One)

(* ------------------------------- C9 ----------------------------------- *)

FirstEqualsLast ==
    /\ Len(fft_data) >= 2
    /\ fft_data[1].re * fft_data[1].re + fft_data[1].im * fft_data[1].im
         = fft_data[Len(fft_data)].re * fft_data[Len(fft_data)].re
           + fft_data[Len(fft_data)].im * fft_data[Len(fft_data)].im

\* the first differences of the magnitudes have mean exactly 0
ZeroMeanDiff == IsZero(np_mean(np_diff(np_abs(fft_data))))

\* C10: for every magnitude sequence whose first differences have mean
\* exactly 0, feature_creation returns NaN or an infinity as modindx (or
\* fails); it never returns an ordinary finite number for modindx.
C10_ModindxUndefined ==
    called = "feature_creation" /\ ZeroMeanDiff /\ result.status = "returned" =>
        /\ result.dict[9].key = "modindx"
        /\ ~IsFinite(result.dict[9].val)

\* a spectrum that rises and comes back to its first magnitude: modindx is
\* +inf
C10_Witness ==
    /\ called = "feature_creation"
    /\ Len(fft_data) = 3
    /\ FirstEqualsLast
    /\ ZeroMeanDiff
    /\ magnitude(fft_data[1]) # magnitude(fft_data[2])
    /\ result.status = "returned"
    /\ result.dict[9].val = Inf(1)

(* ------------------------------- C17 ---------------------------------- *)

\* C17: for every vector with at least two distinct values (negative values
\* included), normalize_features completes without a division by zero for
\* any key: it returns, and no returned value is the NaN or infinity that a
\* zero denominator leaves behind.
C17_NoZeroDenominator ==
    NormalizedNonConstant =>
        /\ result.status = "returned"
        /\ AllFinite(result.dict)

(* ------------- vocabulary of the DataPreparation properties ----------- *)

\* the calls logged for the recording f, in the order they were made
CallsOf(f) ==
    LET IsOf(e) == e.file = f
    IN  SelectSeq(log, IsOf)

\* the files whose rows were appended, in the order of the appends
Appended ==
    LET IsAppend(e) == e.stage = "append"
        appends == SelectSeq(log, IsAppend)
    IN  [k \in 1 .. Len(appends) |-> appends[k].file]

\* the rows handed to df.append, in the order of the appends
AppendedRows ==
    LET IsAppend(e) == e.stage = "append"
        appends == SelectSeq(log, IsAppend)
    IN  [k \in 1 .. Len(appends) |-> appends[k].input]

\* the stages of one recording, in the order the claim gives them
StageOrder ==
    <<"resample_data", "zero_pad", "fft_data", "feature_creation",
      "normalize_features", "add_column", "add_column", "append">>

LabelKeys == {"gender", "digit"}

HasKey(dict, key) == \E k \in 1 .. Len(dict) : dict[k].key = key

ValueOf(dict, key) == dict[CHOOSE k \in 1 .. Len(dict) : dict[k].key = key].val

\* the number of the speaker folder a path lies in
FolderNo(path) ==
    (ord(path[Len(audio_path) + 2]) - 3) * 10 + (ord(path[Len(audio_path) + 3]) - 3)

\* the .wav files under the speaker folder v
FolderFiles(v) == {p \in DOMAIN wav : FolderNo(p) = v}

\* a comes before b in the traversal: ascending folder number, then file name
Before(a, b) ==
    \/ FolderNo(a) < FolderNo(b)
    \/ FolderNo(a) = FolderNo(b) /\ str_lt(a, b)

\* seq lists every file of S once, in traversal order
IsTraversalOf(seq, S) ==
    /\ {seq[k] : k \in 1 .. Len(seq)} = S
    /\ \A j, k \in 1 .. Len(seq) : j < k => Before(seq[j], seq[k])

\* every .wav file under the speaker folders 01 .. N
AllRecordings == UNION {FolderFiles(v) : v \in 1 .. subdirs}

\* the first file, in sorted order, of every speaker folder that has one
FirstRecordings ==
    {p \in AllRecordings : \A q \in FolderFiles(FolderNo(p)) \ {p} : str_lt(p, q)}

(* ------------------------------- C11 ---------------------------------- *)

\* C11: for every recording the stages run in the order resample_data,
\* zero_pad, fft_data, feature_creation, normalize_features, label
\* attachment (gender, digit), append; the first stage reads the recording
\* as it was read from its file and every later stage reads exactly what the
\* stage before it returned; the dict that normalize_features reads and the
\* dict it returns carry no gender or digit key, so the labels take no part
\* in the scaling; and the calls of two recordings are not interleaved.
C11_StagesInOrder ==
    /\ \A f \in DOMAIN wav :
          LET c == CallsOf(f)
          IN  /\ Len(c) <= Len(StageOrder)
              /\ \A k \in 1 .. Len(c) : c[k].stage = StageOrder[k]
              /\ Len(c) > 0 => c[1].input = wav[f].data
              /\ \A k \in 2 .. Len(c) : c[k].input = c[k - 1].output
              /\ \A k \in 1 .. Len(c) :
                    c[k].stage = "normalize_features" =>
                        \A key \in LabelKeys :
                            ~HasKey(c[k].input, key) /\ ~HasKey(c[k].output, key)
    /\ \A j, k \in 1 .. Len(log) :
          (j < k /\ log[j].file = log[k].file) =>
              \A m \in j .. k : log[m].file = log[j].file

\* a run is over in which a recording shorter than the frame went through
\* all the stages and a second recording followed it
C11_Witness ==
    /\ pc = "done"
    /\ Len(Appended) >= 2
    /\ \E f \in DOMAIN wav :
          LET c == CallsOf(f)
          IN  /\ Len(c) = Len(StageOrder)
              /\ Len(c[2].input) < Len(c[2].output)
              /\ HasKey(c[Len(c)].output, "gender")

(* ------------------------------- C12 ---------------------------------- *)

\* C12: the table has one row per append, and the k-th row is the dict
\* handed to the k-th append; it has a gender key whose value is the gender
\* the metadata gives for the speaker id in the name of the file then being
\* processed, and a digit key whose value is the last character of the digit
\* in that name.
C12_RowsCarryOwnLabels ==
    /\ Len(df.rows) = Len(Appended)
    /\ \A k \in 1 .. Len(df.rows) :
          LET row   == df.rows[k]
              parts == name_parts(Appended[k])
          IN  /\ row = AppendedRows[k]
              /\ HasKey(row, "gender")
              /\ HasKey(row, "digit")
              /\ ValueOf(row, "gender") = Str(meta_data[parts[2]].gender)
              /\ ValueOf(row, "digit") = Str(parts[1][Len(parts[1])])

\* the table holds rows of a male and of a female speaker and of two digits
C12_Witness ==
    /\ \E j, k \in 1 .. Len(df.rows) :
          /\ ValueOf(df.rows[j], "gender") = Str("male")
          /\ ValueOf(df.rows[k], "gender") = Str("female")
    /\ \E j, k \in 1 .. Len(df.rows) :
          ValueOf(df.rows[j], "digit") # ValueOf(df.rows[k], "digit")

(* ------------------------------- C13 ---------------------------------- *)

\* C13: when DataPreparation has completed with write_mode True, the rows of
\* the table are those of the .wav files under the speaker folders 01 .. N,
\* each file once, in ascending folder number and then sorted file name, and
\* the one CSV file written holds the table with its rows in that order.
C13_OneRowPerRecording ==
    (pc = "done" /\ write_mode = TRUE) =>
        /\ IsTraversalOf(Appended, AllRecordings)
        /\ Len(Appended) = Cardinality(AllRecordings)
        /\ df.rows = AppendedRows
        /\ csv = <<df>>

\* a run with write_mode True is over whose corpus has two speaker folders,
\* one of them with two recordings
C13_Witness ==
    /\ pc = "done"
    /\ write_mode = TRUE
    /\ Len(df.rows) = 3
    /\ FolderFiles(1) # {}
    /\ FolderFiles(2) # {}

(* ------------------------------- C14 ---------------------------------- *)

\* C14: once resample_data has returned a signal longer than target_sr, the
\* run makes no further call of any stage: zero_pad is the next call, it
\* raises ValueError, DataPreparation is left with the recording that failed
\* as its current file, no CSV file has been written, and no step follows.
C14_LengthExceededFatal ==
    /\ [](\A k \in 1 .. Len(log) :
            (log[k].stage = "resample_data" /\ Len(log[k].output) > target_sr) =>
                /\ k = Len(log)
                /\ file = log[k].file
                /\ csv = <<>>
                /\ \/ pc = "zero_pad"
                   \/ pc = "raised" /\ result = Raise("ValueError"))
    /\ [][pc # "raised"]_vars

\* zero_pad has raised ValueError in a run with write_mode True, after a row
\* was appended and with a recording still to come
C14_Witness ==
    /\ pc = "raised"
    /\ called = "zero_pad"
    /\ result = Raise("ValueError")
    /\ write_mode = TRUE
    /\ Len(df.rows) >= 1
    /\ Cardinality(AllRecordings) > Len(df.rows) + 1

(* ------------------------------- C18 ---------------------------------- *)

SplitDone == mpc \notin {"idle", "csv_to_df", "split"}

\* the methods of XM called so far, in the order of the calls
Methods == [k \in 1 .. Len(calls) |-> calls[k].method]

\* the calls of a whole run of Modelling
MethodOrder ==
    IF tuning_mode = TRUE
    THEN <<"prepare_data", "grid_search", "set_params", "fit",
           "feature_importance", "predict", "evaluate_predictions">>
    ELSE <<"prepare_data", "set_params", "fit",
           "feature_importance", "predict", "evaluate_predictions">>

IsPrefix(a, b) == Len(a) <= Len(b) /\ \A k \in 1 .. Len(a) : a[k] = b[k]

(* ------------------------------- C15 ---------------------------------- *)

\* C15: the three partitions split returns are pairwise disjoint and their
\* union is the set of rows it was given.
C15_SplitPartitions ==
    SplitDone =>
        /\ train_df \cap val_df = {}
        /\ train_df \cap test_df = {}
        /\ val_df \cap test_df = {}
        /\ train_df \cup val_df \cup test_df = final_df
        /\ final_df = final_data

\* ten rows were split in three partitions none of which is empty
C15_Witness ==
    /\ SplitDone
    /\ Cardinality(final_df) = 10
    /\ train_df # {}
    /\ val_df # {}
    /\ test_df # {}

(* ------------------------------- C16 ---------------------------------- *)

C19_ModellingOrder ==
    /\ IsPrefix(Methods, MethodOrder)
    /\ mpc = "done" => Methods = MethodOrder
    /\ \A k \in 1 .. Len(calls) :
          calls[k].method = "fit" =>
              /\ k > 1
              /\ calls[k - 1].method = "set_params"
              /\ calls[k].model.estimator = "configured"
    /\ \A k \in 1 .. Len(calls) :
          calls[k].method \in {"feature_importance", "predict"} =>
              /\ calls[k].model.fitted
              /\ \E j \in 1 .. (k - 1) : calls[j].method = "fit"

\* a run with tuning_mode True has completed
C19_Witness ==
    /\ mpc = "done"
    /\ tuning_mode = TRUE
    /\ Len(calls) = 7
    /\ xm.fitted

====
